---- MODULE Spec2Model ----
(***************************************************************************)
(* Model of bg_report_html_pdf.py: the DataProcessor (process, analyze,    *)
(* is_guangdong_company), ReportGenerator.generate and the control flow of *)
(* main with its collaborators (fetch, render, PDF conversion, webhook).   *)
(*                                                                         *)
(* Python values are records [t, s, n]: t is the type ("None", "str",      *)
(* "int"), s the characters of a str (a sequence of one-character strings),*)
(* n the number of an int.  Chinese characters are written in pinyin, one  *)
(* token per character (a homophone gets a digit), and the Chinese report  *)
(* keys are written in pinyin:                                             *)
(*   xuhao = serial number, gupiao_daima = stock code,                     *)
(*   gupiao_jiancheng = stock name, xiangguan = related,                   *)
(*   jiaoyi_biaodi = deal target, maifang_seller = seller,                 *)
(*   maifang_buyer = buyer, jiaoyi_jine_wan = amount, bizhong = currency,  *)
(*   binggou_fangshi = deal method, zuixin_gonggaori = announcement date,  *)
(*   xiangguan_dai_fengefu = related (pipe separated),                     *)
(*   xiangguan_huanhang = related (line broken).                           *)
(***************************************************************************)
EXTENDS Integers, Sequences, FiniteSets, TLC

VARIABLES today, raw_data, processed_data, guangdong_cases, analyses,
          consumed, pc, calls, report_paths, idx, pending

vars == <<today, raw_data, processed_data, guangdong_cases, analyses,
          consumed, pc, calls, report_paths, idx, pending>>

(* ------------------------------ bounds -------------------------------- *)

\* total number of raw records handed to process over one behaviour
MaxRecords == 3
\* number of analyze calls in one behaviour
MaxAnalyses == 1

(* --------------------------- Python values ---------------------------- *)

None == [t |-> "None", s |-> <<>>, n |-> 0]
MkStr(chars) == [t |-> "str", s |-> chars, n |-> 0]
MkInt(k) == [t |-> "int", s |-> <<>>, n |-> k]

\* the missing sentinel "-"
Dash == MkStr(<<"-">>)
EmptyStr == MkStr(<<>>)

IsStr(v) == v.t = "str"

Min(a, b) == IF a < b THEN a ELSE b

\* s[:k] of a str
Prefix(chars, k) == SubSeq(chars, 1, Min(k, Len(chars)))

DigitChars == <<"0", "1", "2", "3", "4", "5", "6", "7", "8", "9">>

RECURSIVE NatChars(_)
\* the decimal digits of a natural number
NatChars(k) ==
    IF k < 10 THEN <<DigitChars[k + 1]>>
    ELSE NatChars(k \div 10) \o <<DigitChars[(k % 10) + 1]>>

\* str(value)
PyStr(v) ==
    CASE v.t = "None" -> <<"N", "o", "n", "e">>
      [] v.t = "str" -> v.s
      [] v.t = "int" -> IF v.n < 0 THEN <<"-">> \o NatChars(-v.n) ELSE NatChars(v.n)

Upper == <<"A", "B", "C", "D", "E", "F", "G", "H", "I", "J", "K", "L", "M",
           "N", "O", "P", "Q", "R", "S", "T", "U", "V", "W", "X", "Y", "Z">>
LowerOf == <<"a", "b", "c", "d", "e", "f", "g", "h", "i", "j", "k", "l", "m",
             "n", "o", "p", "q", "r", "s", "t", "u", "v", "w", "x", "y", "z">>

LowerChar(c) ==
    IF \E i \in 1..Len(Upper) : Upper[i] = c
    THEN LowerOf[CHOOSE i \in 1..Len(Upper) : Upper[i] = c]
    ELSE c

\* s.lower()
PyLower(chars) == [i \in 1..Len(chars) |-> LowerChar(chars[i])]

Whitespace == {" ", "\t", "\n"}

RECURSIVE LStrip(_)
LStrip(chars) ==
    IF chars # <<>> /\ Head(chars) \in Whitespace THEN LStrip(Tail(chars)) ELSE chars

RECURSIVE RStrip(_)
RStrip(chars) ==
    IF chars # <<>> /\ chars[Len(chars)] \in Whitespace
    THEN RStrip(SubSeq(chars, 1, Len(chars) - 1))
    ELSE chars

\* s.strip()
PyStrip(chars) == RStrip(LStrip(chars))

\* kw in s, for two strs
Contains(kw, chars) ==
    \E i \in 0..(Len(chars) - Len(kw)) : SubSeq(chars, i + 1, i + Len(kw)) = kw

\* bool(value)
Truthy(v) ==
    CASE v.t = "None" -> FALSE
      [] v.t = "str" -> v.s # <<>>
      [] v.t = "int" -> v.n # 0

(* ------------------- float(value) and f"{x:,.2f}" --------------------- *)

IsDigit(c) == \E i \in 1..10 : DigitChars[i] = c
DigitVal(c) == (CHOOSE i \in 1..10 : DigitChars[i] = c) - 1

AllDigits(chars) == \A i \in 1..Len(chars) : IsDigit(chars[i])

RECURSIVE DigitsVal(_)
DigitsVal(chars) ==
    IF chars = <<>> THEN 0
    ELSE DigitsVal(SubSeq(chars, 1, Len(chars) - 1)) * 10 + DigitVal(chars[Len(chars)])

DotAt(chars) == IF \E i \in 1..Len(chars) : chars[i] = "."
                THEN CHOOSE i \in 1..Len(chars) : chars[i] = "."
                ELSE 0

\* the unsigned decimal literals float() accepts: digits, with at most one
\* "." and a digit on one side of it; the model reads at most two decimals
IsDecimal(chars) ==
    LET d == DotAt(chars) IN
    IF d = 0 THEN chars # <<>> /\ AllDigits(chars)
    ELSE LET ip == SubSeq(chars, 1, d - 1)
             fp == SubSeq(chars, d + 1, Len(chars))
         IN AllDigits(ip) /\ AllDigits(fp) /\ Len(ip) + Len(fp) > 0 /\ Len(fp) <= 2

\* the value of such a literal, in hundredths
DecimalCents(chars) ==
    LET d == DotAt(chars) IN
    IF d = 0 THEN DigitsVal(chars) * 100
    ELSE LET ip == SubSeq(chars, 1, d - 1)
             fp == SubSeq(chars, d + 1, Len(chars))
         IN DigitsVal(ip) * 100
            + (IF Len(fp) = 0 THEN 0
               ELSE IF Len(fp) = 1 THEN DigitsVal(fp) * 10
               ELSE DigitsVal(fp))

\* float(value): [ok, cents]; ok = FALSE is the ValueError/TypeError
PyFloat(v) ==
    CASE v.t = "None" -> [ok |-> FALSE, cents |-> 0]
      [] v.t = "int" -> [ok |-> TRUE, cents |-> v.n * 100]
      [] v.t = "str" ->
            LET body == PyStrip(v.s)
                neg == body # <<>> /\ Head(body) = "-"
                pos == body # <<>> /\ Head(body) = "+"
                mag == IF neg \/ pos THEN Tail(body) ELSE body
            IN IF IsDecimal(mag)
               THEN [ok |-> TRUE,
                     cents |-> IF neg THEN -DecimalCents(mag) ELSE DecimalCents(mag)]
               ELSE [ok |-> FALSE, cents |-> 0]

RECURSIVE Grouped(_)
\* the digits of a natural number with "," between groups of three
Grouped(k) ==
    IF k < 1000 THEN NatChars(k)
    ELSE LET r == k % 1000 IN
         Grouped(k \div 1000) \o <<",">>
            \o <<DigitChars[(r \div 100) + 1], DigitChars[((r \div 10) % 10) + 1],
                 DigitChars[(r % 10) + 1]>>

\* f"{x:,.2f}" of a number given in hundredths
FormatAmount(cents) ==
    LET a == IF cents < 0 THEN -cents ELSE cents
        f == a % 100
    IN (IF cents < 0 THEN <<"-">> ELSE <<>>)
       \o Grouped(a \div 100) \o <<".">>
       \o <<DigitChars[(f \div 10) + 1], DigitChars[(f % 10) + 1]>>

(* --------------------------- DataProcessor ---------------------------- *)

\* self.field_mapping, in the order of the dict literal
field_mapping ==
    << <<"SCODE", "gupiao_daima">>,
       <<"SNAME", "gupiao_jiancheng">>,
       <<"OBJTYPE", "xiangguan">>,
       <<"H_COMNAME", "jiaoyi_biaodi">>,
       <<"G_GOMNAME", "maifang_seller">>,
       <<"S_COMNAME", "maifang_buyer">>,
       <<"JYJE", "jiaoyi_jine_wan">>,
       <<"BZNAME", "bizhong">>,
       <<"ZRFS", "binggou_fangshi">>,
       <<"ANNOUNDATE", "zuixin_gonggaori">> >>

\* self.gd_keywords; zhou = the zhou of Guangzhou, shan = mountain,
\* shan2 = the shan of Shantou, qing = the qing of Zhaoqing, qing2 = the
\* qing of Qingyuan, yuan = far, yuan2 = source
gd_keywords ==
    << <<"guang", "dong">>, <<"yue">>, <<"guang", "zhou">>, <<"shen", "zhen">>,
       <<"zhu", "hai">>, <<"fo", "shan">>, <<"dong", "guan">>, <<"zhong", "shan">>,
       <<"hui", "zhou">>, <<"jiang", "men">>, <<"zhao", "qing">>, <<"shan2", "tou">>,
       <<"chao", "zhou">>, <<"jie", "yang">>, <<"shan2", "wei">>, <<"shao", "guan2">>,
       <<"qing2", "yuan">>, <<"mei", "zhou">>, <<"he", "yuan2">>, <<"yang", "jiang">>,
       <<"mao", "ming">>, <<"zhan", "jiang">>, <<"ling", "nan">> >>

\* dict.get(key, default)
Get(d, k, default) == IF k \in DOMAIN d THEN d[k] ELSE default

\* d[key] = value
Put(d, k, v) == [x \in (DOMAIN d) \cup {k} |-> IF x = k THEN v ELSE d[x]]

\* is_guangdong_company: "True", "False", or "TypeError" when `kw in
\* company_name` is evaluated on a value that is not a str
is_guangdong_company(company_name) ==
    IF company_name = Dash THEN "False"
    ELSE IF ~IsStr(company_name) THEN "TypeError"
    ELSE IF \E i \in 1..Len(gd_keywords) : Contains(gd_keywords[i], company_name.s)
         THEN "True"
         ELSE "False"

\* the test of line 92: the value counts as missing
IsMissing(value) ==
    \/ value = None
    \/ PyStrip(PyStr(value)) = <<>>
    \/ PyLower(PyStr(value)) = <<"n", "o", "n", "e">>

Coerce(value) == IF IsMissing(value) THEN Dash ELSE value

NoticeUrl(stock_code) ==
    <<"https://data.eastmoney.com/notices/stock/">> \o PyStr(stock_code) \o <<".html">>
DetailUrl(stock_code) ==
    <<"https://data.eastmoney.com/bgcz/detail/">> \o PyStr(stock_code) \o <<".html">>

Anchor(url, text) == <<"<a href=\"">> \o url \o <<"\" target=\"_blank\">">> \o text \o <<"</a>">>

\* the two renderings of the links (gong gao = notice, xiang xi = detail)
LinkPipe(stock_code) ==
    MkStr(Anchor(NoticeUrl(stock_code), <<"gong", "gao">>) \o <<" | ">>
          \o Anchor(DetailUrl(stock_code), <<"xiang", "xi">>))
LinkBreak(stock_code) ==
    MkStr(Anchor(NoticeUrl(stock_code), <<"gong", "gao">>) \o <<"<br>">>
          \o Anchor(DetailUrl(stock_code), <<"xiang", "xi">>))

\* the amount branch (lines 95-101): the row after it
AmountField(row, report_field, value) ==
    IF value # Dash
    THEN IF PyFloat(value).ok
         THEN Put(row, report_field, MkStr(FormatAmount(PyFloat(value).cents)))
         ELSE Put(row, report_field, Dash)
    ELSE row

\* the links branch (lines 102-113): the row after it
LinkField(row, stock_code, value) ==
    IF Truthy(stock_code) /\ value # Dash
    THEN Put(Put(row, "xiangguan_dai_fengefu", LinkPipe(stock_code)),
             "xiangguan_huanhang", LinkBreak(stock_code))
    ELSE Put(Put(row, "xiangguan_dai_fengefu", Dash), "xiangguan_huanhang", Dash)

\* one pass of the loop over field_mapping (lines 89-117): [raised, row];
\* value[:10] of a value that is not a str raises TypeError
FieldStep(item, stock_code, row, api_field, report_field) ==
    LET value == Coerce(Get(item, api_field, Dash)) IN
    CASE api_field = "JYJE" ->
            [raised |-> FALSE, row |-> AmountField(row, report_field, value)]
      [] api_field = "OBJTYPE" ->
            [raised |-> FALSE, row |-> LinkField(row, stock_code, value)]
      [] api_field = "ANNOUNDATE" ->
            IF value = Dash THEN [raised |-> FALSE, row |-> Put(row, report_field, Dash)]
            ELSE IF IsStr(value)
                 THEN [raised |-> FALSE,
                       row |-> Put(row, report_field, MkStr(Prefix(value.s, 10)))]
                 ELSE [raised |-> TRUE, row |-> row]
      [] OTHER -> [raised |-> FALSE, row |-> Put(row, report_field, value)]

RECURSIVE BuildRow(_, _, _, _)
\* the loop over field_mapping from its i-th entry on
BuildRow(item, stock_code, row, i) ==
    IF i > Len(field_mapping) THEN [raised |-> FALSE, row |-> row]
    ELSE LET st == FieldStep(item, stock_code, row, field_mapping[i][1], field_mapping[i][2])
         IN IF st.raised THEN st ELSE BuildRow(item, stock_code, st.row, i + 1)

\* the row before the loop over field_mapping (lines 83-87)
NewRow(serial_number) ==
    Put(Put(<<>>, "xuhao", MkInt(serial_number)), "jiaoyi_jine_wan", Dash)

\* a copy whose xiangguan is not overridden
CaseDataNoOverride(row) == row

\* the copy appended to guangdong_cases (lines 126-127)
CaseData(row) == Put(row, "xiangguan", row["xiangguan_dai_fengefu"])

\* the test of line 124, with the short circuit of `or`
Classify(row) ==
    LET seller == is_guangdong_company(Get(row, "maifang_seller", EmptyStr)) IN
    IF seller # "False" THEN seller
    ELSE is_guangdong_company(Get(row, "maifang_buyer", EmptyStr))

\* item.get('SCGGRQ', '')[:10] != self.today
\* (the slice of a value that is not a str raises TypeError)
DateRaises(item) == ~IsStr(Get(item, "SCGGRQ", EmptyStr))
DateMatches(item, target) == Prefix(Get(item, "SCGGRQ", EmptyStr).s, 10) = target

RECURSIVE ProcessFrom(_, _, _, _, _, _)
\* the loop of process over raw_data from its i-th item on (lines 78-128):
\* [raised, rows, cases]; cases is self.guangdong_cases, which keeps what was
\* appended before an exception
ProcessFrom(raw, i, serial_number, rows, cases, target) ==
    IF i > Len(raw) THEN [raised |-> FALSE, rows |-> rows, cases |-> cases]
    ELSE LET item == raw[i] IN
         IF DateRaises(item) THEN [raised |-> TRUE, rows |-> rows, cases |-> cases]
         ELSE IF ~DateMatches(item, target)
         THEN ProcessFrom(raw, i + 1, serial_number, rows, cases, target)
         ELSE LET built == BuildRow(item, Get(item, "SCODE", EmptyStr),
                                    NewRow(serial_number), 1)
                  tag == Classify(built.row)
              IN IF built.raised \/ tag = "TypeError"
                 THEN [raised |-> TRUE, rows |-> rows, cases |-> cases]
                 ELSE ProcessFrom(raw, i + 1, serial_number + 1,
                                  Append(rows, built.row),
                                  IF tag = "True" THEN Append(cases, CaseData(built.row))
                                  ELSE cases,
                                  target)

\* DataProcessor.process(raw_data) on a processor whose guangdong_cases is cases
process(raw, cases, target) ==
    IF raw = <<>> THEN [raised |-> FALSE, rows |-> <<>>, cases |-> cases]
    ELSE ProcessFrom(raw, 1, 1, <<>>, cases, target)

(* DataProcessor.analyze.  The dict it returns holds a reference to the list
   self.guangdong_cases (line 152), not a copy: cases_ref says which list
   object the key 'guangdong_cases' refers to. *)

\* df['binggou_fangshi'].value_counts().to_dict()
value_counts(rows, column) ==
    [v \in {rows[i][column] : i \in 1..Len(rows)} |->
        Cardinality({i \in 1..Len(rows) : rows[i][column] = v})]

\* the overview strings: the fixed text around str(total_count)
NoDataOverview == <<"jinri wu binggou chongzu shuju gonggao">>
Overview(total_count) ==
    <<"jinri gong huoqu">> \o NatChars(total_count) \o <<"tiao binggou chongzu shuju">>

analyze(rows, cases) ==
    IF rows = <<>>
    THEN [overview |-> NoDataOverview,
          basic_overview |-> NoDataOverview,
          cases |-> <<>>,
          cases_ref |-> "new_list",
          guangdong_count |-> 0,
          total_count |-> 0,
          method_distribution |-> <<>>]
    ELSE [overview |-> Overview(Len(rows)),
          basic_overview |-> Overview(Len(rows)),
          cases |-> <<>>,
          cases_ref |-> "self.guangdong_cases",
          guangdong_count |-> Len(cases),
          total_count |-> Len(rows),
          method_distribution |-> value_counts(rows, "binggou_fangshi")]

\* analysis['guangdong_cases'] as read now, through the reference
CasesOf(a) == IF a.cases_ref = "self.guangdong_cases" THEN guangdong_cases ELSE <<>>

(* ----------------------------- the inputs ----------------------------- *)

D1 == <<"2", "0", "2", "4", "-", "0", "1", "-", "0", "2">>
D2 == <<"2", "0", "2", "4", "-", "0", "1", "-", "0", "3">>
Midnight == <<" ", "0", "0", ":", "0", "0", ":", "0", "0">>

Dates == {D1, D2}

\* a full record of day D1 whose seller carries a keyword
RecGuangdong ==
    [SCGGRQ |-> MkStr(D1 \o Midnight), SCODE |-> MkStr(<<"0", "0", "1">>),
     SNAME |-> MkStr(<<"A">>), OBJTYPE |-> MkStr(<<"1">>),
     H_COMNAME |-> MkStr(<<"T">>),
     G_GOMNAME |-> MkStr(<<"guang", "dong", "X", "X">>),
     S_COMNAME |-> MkStr(<<"bei", "jing", "B">>),
     JYJE |-> MkStr(<<"1", "2", "3", "4", "5", "6", "7", ".", "5">>),
     BZNAME |-> MkStr(<<"ren", "min", "bi">>), ZRFS |-> MkStr(<<"xie", "yi">>),
     ANNOUNDATE |-> MkStr(D1 \o Midnight)]

\* a record of day D1 with absent, null, empty, blank and "NONE" values and
\* an amount that is no number
RecMissing ==
    [SCGGRQ |-> MkStr(D1), SNAME |-> MkStr(<<" ", "\t">>), OBJTYPE |-> None,
     H_COMNAME |-> MkStr(<<"N", "O", "N", "E">>),
     G_GOMNAME |-> MkStr(<<"bei", "jing", "A">>), S_COMNAME |-> MkStr(<<>>),
     JYJE |-> MkStr(<<"a", "b", "c">>), BZNAME |-> None,
     ANNOUNDATE |-> MkStr(<<>>)]

\* a record of day D2 whose buyer carries a keyword, with numbers as values
RecBuyer ==
    [SCGGRQ |-> MkStr(D2 \o Midnight), SCODE |-> MkInt(600000),
     SNAME |-> MkStr(<<"C">>), OBJTYPE |-> MkInt(2),
     H_COMNAME |-> MkStr(<<"T">>), G_GOMNAME |-> MkStr(<<"-">>),
     S_COMNAME |-> MkStr(<<"Y", "shen", "zhen", "Z">>),
     JYJE |-> MkInt(5), BZNAME |-> MkStr(<<"mei", "yuan3">>),
     ZRFS |-> MkStr(<<"xie", "yi">>), ANNOUNDATE |-> MkStr(D2)]

\* a record of day D2 whose seller and buyer are both missing
RecDash ==
    [SCGGRQ |-> MkStr(D2), SCODE |-> MkStr(<<"0", "0", "2">>),
     OBJTYPE |-> MkStr(<<"1">>), G_GOMNAME |-> MkStr(<<"-">>),
     JYJE |-> MkStr(<<"-">>), ANNOUNDATE |-> MkStr(D2 \o Midnight)]

\* a record whose disclosure date is null
RecNullDate ==
    [SCGGRQ |-> None, SCODE |-> MkStr(<<"0", "0", "3">>),
     G_GOMNAME |-> MkStr(<<"guang", "zhou", "X">>), ANNOUNDATE |-> MkStr(D1)]

\* a record of day D1 whose seller name is a number
RecNumSeller ==
    [SCGGRQ |-> MkStr(D1), SCODE |-> MkStr(<<"0", "0", "4">>),
     G_GOMNAME |-> MkInt(7), ANNOUNDATE |-> MkStr(D1)]

\* a record of day D2 whose announcement date is a number
RecNumAnnounce ==
    [SCGGRQ |-> MkStr(D2), SCODE |-> MkStr(<<"0", "0", "5">>),
     S_COMNAME |-> MkStr(<<"zhu", "hai", "X">>), ANNOUNDATE |-> MkInt(20240103)]

RawPool == {RecGuangdong, RecMissing, RecBuyer, RecDash, RecNullDate,
            RecNumSeller, RecNumAnnounce}

\* the raw record lists of at most k records
RawInputs(k) == UNION {[1..m -> RawPool] : m \in 0..k}

(* ------------------- a DataProcessor and its callers ------------------ *)

NoResult == [status |-> "none", rows |-> <<>>]

InitProcessor ==
    /\ today \in Dates
    /\ raw_data = <<>>
    /\ processed_data = NoResult
    /\ guangdong_cases = <<>>
    /\ analyses = <<>>
    /\ consumed = 0

MainIdle ==
    /\ calls = <<>>
    /\ report_paths = <<>>
    /\ idx = 0
    /\ pending = <<>>

Init == InitProcessor /\ pc = "idle" /\ MainIdle

mainVars == <<pc, calls, report_paths, idx, pending>>

\* a call processor.process(raw) of a caller that holds the processor
Process ==
    \E raw \in RawInputs(MaxRecords - consumed) :
        LET r == process(raw, guangdong_cases, today) IN
        /\ raw_data' = raw
        /\ consumed' = consumed + Len(raw)
        /\ guangdong_cases' = r.cases
        /\ processed_data' = IF r.raised THEN [status |-> "raised", rows |-> <<>>]
                             ELSE [status |-> "returned", rows |-> r.rows]
        /\ UNCHANGED <<today, analyses, mainVars>>

\* a call processor.analyze(rows) on the rows the last process call returned
Analyze ==
    /\ processed_data.status = "returned"
    /\ Len(analyses) < MaxAnalyses
    /\ analyses' = Append(analyses, [given |-> processed_data.rows,
                                      result |-> analyze(processed_data.rows,
                                                         guangdong_cases)])
    /\ UNCHANGED <<today, raw_data, processed_data, guangdong_cases, consumed, mainVars>>

Next == Process \/ Analyze

Spec == Init /\ [][Next]_vars

(* ------------------ ReportGenerator and WechatSender ------------------ *)

\* one collaborator call of a run: what was called, on what, how it ended
Call(op, arg, out) == [op |-> op, arg |-> arg, out |-> out]

\* datetime.now().strftime('%Y%m%d'), on the day of self.today
RECURSIVE Compact(_)
Compact(chars) ==
    IF chars = <<>> THEN <<>>
    ELSE IF Head(chars) = "-" THEN Compact(Tail(chars))
    ELSE <<Head(chars)>> \o Compact(Tail(chars))

\* html_filename of generate_html
HtmlName(date_str) == <<"binggou chongzu ribao_">> \o date_str \o <<".html">>

\* os.path.splitext(html_path)[0] + '.pdf'
PdfName(html_path) == SubSeq(html_path, 1, Len(html_path) - 1) \o <<".pdf">>

HtmlOutcomes == {"ok", "render_raises", "write_raises"}
PdfOutcomes == {"ok", "html_missing", "convert_raises"}
SendFileOutcomes == {"ok", "file_missing", "upload_raises", "upload_errcode",
                     "send_raises", "send_errcode"}
SendStatusOutcomes == {"ok", "errcode", "raises"}

\* generate_html: [path, calls]; path = <<>> stands for None
generate_html(data, date_str, out) ==
    IF data = <<>> THEN [path |-> <<>>, calls |-> <<>>]
    ELSE IF out = "render_raises"
    THEN [path |-> <<>>, calls |-> <<Call("render", <<>>, "raises")>>]
    ELSE IF out = "write_raises"
    THEN [path |-> <<>>,
          calls |-> <<Call("render", <<>>, "ok"), Call("write", HtmlName(date_str), "raises")>>]
    ELSE [path |-> HtmlName(date_str),
          calls |-> <<Call("render", <<>>, "ok"), Call("write", HtmlName(date_str), "ok")>>]

\* generate_pdf: [path, calls]; path = <<>> stands for None
generate_pdf(html_path, out) ==
    IF html_path = <<>> \/ out = "html_missing" THEN [path |-> <<>>, calls |-> <<>>]
    ELSE IF out = "convert_raises"
    THEN [path |-> <<>>, calls |-> <<Call("convert", html_path, "raises")>>]
    ELSE [path |-> PdfName(html_path), calls |-> <<Call("convert", html_path, "ok")>>]

\* a generate that returns no path at all when the PDF could not be made
generate_all_or_nothing(data, date_str, html_out, pdf_out) ==
    LET html == generate_html(data, date_str, html_out) IN
    IF html.path = <<>> THEN [paths |-> <<>>, calls |-> html.calls]
    ELSE LET pdf == generate_pdf(html.path, pdf_out) IN
         IF pdf.path = <<>>
         THEN [paths |-> <<>>, calls |-> html.calls \o pdf.calls]
         ELSE [paths |-> <<html.path, pdf.path>>, calls |-> html.calls \o pdf.calls]

\* ReportGenerator.generate: [paths, calls]
generate(data, date_str, html_out, pdf_out) ==
    LET html == generate_html(data, date_str, html_out) IN
    IF html.path = <<>> THEN [paths |-> <<>>, calls |-> html.calls]
    ELSE LET pdf == generate_pdf(html.path, pdf_out) IN
         IF pdf.path = <<>>
         THEN [paths |-> <<html.path>>, calls |-> html.calls \o pdf.calls]
         ELSE [paths |-> <<html.path, pdf.path>>, calls |-> html.calls \o pdf.calls]

\* a send_file whose result does not tell a failure
send_file_unchecked(out) == TRUE

\* the return value of WechatSender.send_file
send_file(out) == out = "ok"

(* ------------------------------- main --------------------------------- *)

Success == "chenggong"
Failure == "shibai"

InitMain == InitProcessor /\ pc = "fetch" /\ MainIdle

processorVars == <<today, raw_data, processed_data, guangdong_cases, analyses, consumed>>

\* fetcher.fetch() and the test of its result (lines 314-319); fetch
\* returns [] when the request or the parse raises
MainFetch ==
    /\ pc = "fetch"
    /\ \E out \in {"ok", "raises"} : \E raw \in RawInputs(MaxRecords) :
        LET fetched == IF out = "ok" THEN raw ELSE <<>> IN
        /\ calls' = Append(calls, Call("fetch", <<>>, out))
        /\ raw_data' = fetched
        /\ IF fetched = <<>>
           THEN pc' = "notify" /\ pending' = <<Success, "no raw data">>
           ELSE pc' = "process" /\ pending' = pending
    /\ UNCHANGED <<today, processed_data, guangdong_cases, analyses, consumed,
                   report_paths, idx>>

\* processor.process(raw_data) on a new DataProcessor and the test of its
\* result (lines 322-327); an exception goes to the handler of line 351
MainProcess ==
    /\ pc = "process"
    /\ LET r == process(raw_data, <<>>, today) IN
        /\ guangdong_cases' = r.cases
        /\ processed_data' = IF r.raised THEN [status |-> "raised", rows |-> <<>>]
                             ELSE [status |-> "returned", rows |-> r.rows]
        /\ IF r.raised
           THEN pc' = "notify" /\ pending' = <<Failure, "task error">>
           ELSE IF r.rows = <<>>
           THEN pc' = "notify" /\ pending' = <<Success, "no data today">>
           ELSE pc' = "analyze" /\ pending' = pending
    /\ UNCHANGED <<today, raw_data, analyses, consumed, calls, report_paths, idx>>

\* processor.analyze(processed_data) (line 330)
MainAnalyze ==
    /\ pc = "analyze"
    /\ analyses' = Append(analyses, [given |-> processed_data.rows,
                                      result |-> analyze(processed_data.rows,
                                                         guangdong_cases)])
    /\ pc' = "generate"
    /\ UNCHANGED <<today, raw_data, processed_data, guangdong_cases, consumed,
                   calls, report_paths, idx, pending>>

\* generator.generate(...) and the test of its result (lines 333-339)
MainGenerate ==
    /\ pc = "generate"
    /\ \E html_out \in HtmlOutcomes : \E pdf_out \in PdfOutcomes :
        LET g == generate(processed_data.rows, Compact(today), html_out, pdf_out) IN
        /\ calls' = calls \o g.calls
        /\ report_paths' = g.paths
        /\ IF g.paths = <<>>
           THEN pc' = "notify" /\ pending' = <<Failure, "report generation failed">>
                /\ idx' = idx
           ELSE pc' = "send" /\ pending' = pending /\ idx' = 1
    /\ UNCHANGED processorVars

\* the loop without the return of line 345: after a failed delivery the
\* status is sent and the loop goes on
MainSendFileNoReturn ==
    /\ pc = "send"
    /\ \E out \in SendFileOutcomes :
        /\ calls' = IF out = "ok"
                    THEN Append(calls, Call("send_file", report_paths[idx], out))
                    ELSE calls \o <<Call("send_file", report_paths[idx], out),
                                    Call("send_status", <<Failure, "file delivery failed">>, "ok")>>
        /\ IF idx = Len(report_paths)
           THEN pc' = "notify" /\ pending' = <<Success, "report sent">> /\ idx' = idx
           ELSE pc' = "send" /\ pending' = pending /\ idx' = idx + 1
    /\ UNCHANGED <<processorVars, report_paths>>

\* one pass of the loop over report_paths (lines 342-347)
MainSendFile ==
    /\ pc = "send"
    /\ \E out \in SendFileOutcomes :
        /\ calls' = Append(calls, Call("send_file", report_paths[idx], out))
        /\ IF ~send_file(out)
           THEN pc' = "notify" /\ pending' = <<Failure, "file delivery failed">>
                /\ idx' = idx
           ELSE IF idx = Len(report_paths)
           THEN pc' = "notify" /\ pending' = <<Success, "report sent">> /\ idx' = idx
           ELSE pc' = "send" /\ pending' = pending /\ idx' = idx + 1
    /\ UNCHANGED <<processorVars, report_paths>>

\* sender.send_status(status, message), after which main returns; send_status
\* catches what its request raises
MainNotify ==
    /\ pc = "notify"
    /\ \E out \in SendStatusOutcomes :
        calls' = Append(calls, Call("send_status", pending, out))
    /\ pc' = "done"
    /\ UNCHANGED <<processorVars, report_paths, idx, pending>>

MainNext ==
    \/ MainFetch
    \/ MainProcess
    \/ MainAnalyze
    \/ MainGenerate
    \/ MainSendFile
    \/ MainNotify

MainSpec == InitMain /\ [][MainNext]_vars

(* ------------------------------ claims -------------------------------- *)

Last(seq) == seq[Len(seq)]

\* the record's disclosure date, cut to 10 characters, is the target date
MatchesToday(item) ==
    /\ IsStr(Get(item, "SCGGRQ", EmptyStr))
    /\ Prefix(Get(item, "SCGGRQ", EmptyStr).s, 10) = today

\* the records of the last input that carry the target date, in feed order
Retained == SelectSeq(raw_data, MatchesToday)

\* the raw value counts as missing: absent, null, empty, blank or "none"
RawMissing(item, api_field) ==
    \/ api_field \notin DOMAIN item
    \/ item[api_field] = None
    \/ /\ IsStr(item[api_field])
       /\ \/ \A i \in 1..Len(item[api_field].s) : item[api_field].s[i] \in Whitespace
          \/ PyLower(item[api_field].s) = <<"n", "o", "n", "e">>

\* the seller or the buyer of the row is region-tagged
Tagged(row) ==
    \/ is_guangdong_company(Get(row, "maifang_seller", EmptyStr)) = "True"
    \/ is_guangdong_company(Get(row, "maifang_buyer", EmptyStr)) = "True"

TaggedRows(rows) == SelectSeq(rows, Tagged)

\* the calls of one kind in the log of a run, in order
IsSendFile(c) == c.op = "send_file"
IsSendStatus(c) == c.op = "send_status"
SendFiles == SelectSeq(calls, IsSendFile)
SendStatuses == SelectSeq(calls, IsSendStatus)

Called(op) == \E i \in 1..Len(calls) : calls[i].op = op
CalledOk(op) == \E i \in 1..Len(calls) : calls[i].op = op /\ calls[i].out = "ok"

\* C1: once process has been called, it has returned exactly the records of
\* its input whose SCGGRQ cut to 10 characters is the target date, in feed
\* order, numbered 1, 2, ..., n.
C1_FilterOrderSerial ==
    processed_data.status # "none" =>
        /\ processed_data.status = "returned"
        /\ Len(processed_data.rows) = Len(Retained)
        /\ \A j \in 1..Len(processed_data.rows) :
              /\ processed_data.rows[j]["xuhao"] = MkInt(j)
              /\ processed_data.rows[j]["gupiao_daima"]
                    = Coerce(Get(Retained[j], "SCODE", Dash))

\* What holds of the code for C1: the same, whenever process returns.
C1_WhenReturned ==
    processed_data.status = "returned" =>
        /\ Len(processed_data.rows) = Len(Retained)
        /\ \A j \in 1..Len(processed_data.rows) :
              /\ processed_data.rows[j]["xuhao"] = MkInt(j)
              /\ processed_data.rows[j]["gupiao_daima"]
                    = Coerce(Get(Retained[j], "SCODE", Dash))

\* C2: every row process returns has each of the ten report names of
\* field_mapping as a key, with the value "-" where the raw value of the
\* mapped key is missing.
C2_AllFieldsPresent ==
    processed_data.status = "returned" =>
        \A j \in 1..Len(processed_data.rows) : \A i \in 1..Len(field_mapping) :
            /\ field_mapping[i][2] \in DOMAIN processed_data.rows[j]
            /\ processed_data.rows[j][field_mapping[i][2]] # None
            /\ processed_data.rows[j][field_mapping[i][2]] # EmptyStr
            /\ (j <= Len(Retained) /\ RawMissing(Retained[j], field_mapping[i][1]))
                  => processed_data.rows[j][field_mapping[i][2]] = Dash

\* C3: every analysis has guangdong_count = the number of region-tagged rows
\* of the sequence analyze was given, and total_count = its length, hence
\* guangdong_count <= total_count.
C3_CountsOfGivenRows ==
    \A i \in 1..Len(analyses) :
        /\ analyses[i].result.guangdong_count = Len(TaggedRows(analyses[i].given))
        /\ analyses[i].result.total_count = Len(analyses[i].given)
        /\ analyses[i].result.guangdong_count <= analyses[i].result.total_count

\* C4: the files are sent in the order of report_paths, HTML first; a file is
\* sent only after every file before it was delivered; after a send_file
\* that fails nothing more is sent and the run ends with a failure status.
C4_DeliveryOrder ==
    /\ Len(SendFiles) <= Len(report_paths)
    /\ \A k \in 1..Len(SendFiles) :
          /\ SendFiles[k].arg = report_paths[k]
          /\ k < Len(SendFiles) => SendFiles[k].out = "ok"
    /\ SendFiles # <<>> => Last(SendFiles[1].arg) = ".html"
    /\ (SendFiles # <<>> /\ Last(SendFiles).out # "ok") =>
          /\ pc \in {"notify", "done"}
          /\ pending[1] = Failure
          /\ pc = "done" => (Last(calls).op = "send_status" /\ Last(calls).arg[1] = Failure)

C4_Witness ==
    /\ pc = "done"
    /\ Len(SendFiles) = 2
    /\ SendFiles[1].out = "ok"
    /\ SendFiles[2].out = "upload_errcode"

\* C5: a run whose feed returned no record, or no record of the target date,
\* renders nothing, sends no file and ends with a success status.
C5_EmptyInputSucceeds ==
    (pc = "done" /\ \A i \in 1..Len(raw_data) : ~MatchesToday(raw_data[i])) =>
        /\ ~Called("render")
        /\ ~Called("send_file")
        /\ Last(calls).op = "send_status"
        /\ Last(calls).arg[1] = Success

\* C6: no value of a field of a raw record makes process abort.
C6_NoAbort == processed_data.status # "raised"

\* C7: when the HTML was written and no PDF was made, generate returned
\* exactly the HTML path, the run sent the HTML file, and the run ended with
\* a success status if that delivery succeeded.
C7_HtmlWithoutPdf ==
    (CalledOk("write") /\ ~CalledOk("convert")) =>
        /\ report_paths = <<HtmlName(Compact(today))>>
        /\ pc = "done" =>
              /\ Len(SendFiles) = 1
              /\ SendFiles[1].arg = HtmlName(Compact(today))
              /\ Last(calls).op = "send_status"
              /\ SendFiles[1].out = "ok" <=> Last(calls).arg[1] = Success

C7_Witness ==
    /\ pc = "done"
    /\ CalledOk("write")
    /\ \E i \in 1..Len(calls) : calls[i].op = "convert" /\ calls[i].out = "raises"
    /\ SendFiles # <<>>
    /\ SendFiles[1].out = "ok"

\* the keys of a row of processed_data
RowKeys ==
    {"xuhao", "xiangguan_dai_fengefu", "xiangguan_huanhang"}
        \cup ({field_mapping[i][2] : i \in 1..Len(field_mapping)} \ {"xiangguan"})

\* C8: for every row process classifies as region-tagged it appends a copy
\* whose xiangguan is the row's pipe-separated rendering, the returned row
\* keeps its keys and values, and a row whose seller and buyer are both "-"
\* is never in guangdong_cases.
C8_TaggedCopy ==
    /\ \A k \in 1..Len(guangdong_cases) :
          /\ "xiangguan" \in DOMAIN guangdong_cases[k]
          /\ guangdong_cases[k]["xiangguan"] = guangdong_cases[k]["xiangguan_dai_fengefu"]
          /\ ~(/\ guangdong_cases[k]["maifang_seller"] = Dash
               /\ guangdong_cases[k]["maifang_buyer"] = Dash)
    /\ processed_data.status = "returned" =>
          LET t == TaggedRows(processed_data.rows)
              m == Len(guangdong_cases) - Len(t)
          IN /\ m >= 0
             /\ \A j \in 1..Len(processed_data.rows) :
                   DOMAIN processed_data.rows[j] = RowKeys
             /\ \A j \in 1..Len(t) :
                   /\ DOMAIN guangdong_cases[m + j] = RowKeys \cup {"xiangguan"}
                   /\ \A f \in RowKeys : guangdong_cases[m + j][f] = t[j][f]
                   /\ guangdong_cases[m + j]["xiangguan"] = t[j]["xiangguan_dai_fengefu"]

C8_Witness ==
    /\ processed_data.status = "returned"
    /\ Len(TaggedRows(processed_data.rows)) = 1
    /\ \E j \in 1..Len(processed_data.rows) :
          /\ processed_data.rows[j]["maifang_seller"] = Dash
          /\ processed_data.rows[j]["maifang_buyer"] = Dash
    /\ Len(guangdong_cases) = 1

\* C9: every analysis already returned still has guangdong_count = the length
\* of its guangdong_cases list.
C9_AnalysisImmutable ==
    \A i \in 1..Len(analyses) :
        analyses[i].result.guangdong_count = Len(CasesOf(analyses[i].result))

\* exactly one send_status at the end of a run, none before, and nothing
\* after it
OneStatusLast ==
    /\ Len(SendStatuses) = (IF pc = "done" THEN 1 ELSE 0)
    /\ pc = "done" => Last(calls).op = "send_status"

\* the number of steps a run can still take is at most Rank
Rank ==
    CASE pc = "fetch" -> 7
      [] pc = "process" -> 6
      [] pc = "analyze" -> 5
      [] pc = "generate" -> 4
      [] pc = "send" -> 2 + Len(report_paths) - idx
      [] pc = "notify" -> 1
      [] pc = "done" -> 0

\* a run that has not ended can take a step: process is total (an exception
\* is an outcome of MainProcess), the other steps are enabled
CanStep ==
    \/ pc = "done"
    \/ pc = "process"
    \/ ENABLED (MainFetch \/ MainAnalyze \/ MainGenerate \/ MainSendFile \/ MainNotify)

\* C10: every run of main ends, whatever the collaborators return or raise
\* (no run stops before its end, and every step brings the end nearer), with
\* exactly one send_status, which is its last collaborator call.
C10_OneStatusAtEnd ==
    /\ [](OneStatusLast /\ CanStep /\ Rank >= 0)
    /\ [][Rank' < Rank]_vars

C10_Witness ==
    /\ pc = "done"
    /\ processed_data.status = "raised"
    /\ Last(calls).op = "send_status"
    /\ Last(calls).out = "raises"

====
